---- MODULE Spec2Model ----
(***************************************************************************)
(* Model of deploy.py: a command-line run that ensures a GitHub            *)
(* repository exists, rebuilds a local workspace, stages the portfolio     *)
(* manifest, commits, force-pushes to main and enables GitHub Pages.       *)
(* The hosting platform, the local file system and git are the             *)
(* environment; their answers are chosen nondeterministically.             *)
(***************************************************************************)
EXTENDS Integers, Sequences, FiniteSets, TLC

(* ------------------------------ bounds -------------------------------- *)

\* Number of runs of the script in one behaviour.
MaxRuns == 2

\* Number of changes made to the platform by somebody else in one behaviour.
MaxExternal == 2

(* --------------------------- input domains ---------------------------- *)

Usernames == {"alice", "bob"}

Repos == {"portfolio", "alice.github.io"}

\* --token / GITHUB_TOKEN; "" is the argparse default when neither is given.
Tokens == {"", "ghp_tok"}

\* PORTFOLIO_FILES
PORTFOLIO_FILES == <<"index.html">>

\* What source_dir / item is: src.is_dir(), src.is_file(), or neither.
Kinds == {"dir", "file", "missing"}

ManifestItems == {PORTFOLIO_FILES[i] : i \in 1..Len(PORTFOLIO_FILES)}

\* Names a workspace directory can hold.
GitDir == ".git"

StaleFile == "old_notes.txt"

\* How the API answers: "ok", credential rejected, credential without the
\* scope to create repositories, or service unavailable.
ApiModes == {"ok", "unauthorized", "no_create_scope", "down"}

\* Statuses the pages-configuration endpoint can answer with.
PagesStatuses == {201, 422, 401, 403, 404, 409, 503}

NoCommit == [by |-> "none", run |-> 0, tree |-> {}]

ExternalCommit == [by |-> "external", run |-> 0, tree |-> {"README.md"}]

VARIABLES
    username,      \* --username
    repo,          \* --repo
    token,         \* --token of the current run
    source,        \* source_dir: manifest item -> kind
    open_browser,  \* not --no-browser
    pc,            \* position of the current run
    exitStatus,    \* "running", "zero" or "nonzero"
    runNo,         \* number of runs started
    remoteExists,  \* the repository exists on the platform
    apiMode,       \* how the platform answers API requests
    remoteMain,    \* commit the remote main branch points to
    remote_url,    \* clone URL returned by ensure_repo_exists
    workspace,     \* ~/{repo}_deploy: [exists, files]
    localBranch,   \* name of the branch of the fresh local repository
    localCommit,   \* commit made by this run
    stageLog,      \* console lines of the File Stager: <<kind, item>>
    events,        \* side effects of the current run, in order
    pushLog,       \* outcome of each push attempt of the current run
    pagesStatus,   \* status answered by the pages endpoint (0: not called)
    pagesWarned,   \* the "Pages API returned" warning was printed
    pages_url,     \* value returned by enable_github_pages
    reportedUrl,   \* URL printed in the success summary
    browserOpened, \* webbrowser.open was called
    lastEnsure,    \* outcome of the latest ensure_repo_exists call
    prevEnsure,    \* outcome of the call before it
    lastPosted,    \* the latest ensure_repo_exists call issued POST /user/repos
    prevPosted,    \* the call before it did
    extSince,      \* the platform was changed externally since the latest call began or ended
    extBetween,    \* ... between the end of the previous call and the latest call's last request
    extCount,      \* number of external changes so far
    workspaceAtStart, \* the workspace directory as the current run found it
    createStatus,  \* status answered to POST /user/repos (0: not issued)
    overwritten    \* remote main as it was before this run's successful push

vars == <<username, repo, token, source, open_browser, pc, exitStatus, runNo,
          remoteExists, apiMode, remoteMain, remote_url, workspace,
          localBranch, localCommit, stageLog, events, pushLog, pagesStatus,
          pagesWarned, pages_url, reportedUrl, browserOpened, lastEnsure,
          prevEnsure, lastPosted, prevPosted, extSince, extBetween, extCount,
          workspaceAtStart, createStatus, overwritten>>

inputVars == <<username, repo, token, source, open_browser>>

platformVars == <<remoteExists, apiMode, remoteMain>>

localVars == <<workspace, localBranch, localCommit, stageLog>>

pagesVars == <<pagesStatus, pagesWarned, pages_url, reportedUrl, browserOpened>>

ensureVars == <<lastEnsure, prevEnsure, lastPosted, prevPosted, extBetween>>

(* ------------------------- pure functions ----------------------------- *)

\* Mutant: the token check never fires.
TokenMissingNever(t) == FALSE

\* main: `if not args.token`
TokenMissing(t) == t = ""

\* GET /repos/{username}/{repo} as answered by the platform.
GetStatus(exists, mode) ==
    CASE mode = "unauthorized" -> 401
      [] mode = "down" -> 503
      [] OTHER -> IF exists THEN 200 ELSE 404

\* POST /user/repos as answered by the platform.
PostStatus(exists, mode) ==
    CASE mode = "unauthorized" -> 401
      [] mode = "down" -> 503
      [] mode = "no_create_scope" -> 403
      [] OTHER -> IF exists THEN 422 ELSE 201

\* resp.json()["clone_url"]
CloneUrl(u, r) == "https://github.com/" \o u \o "/" \o r \o ".git"

\* Mutant: only server errors are taken as a failed creation.
CreateFailedServerOnly(status) == status >= 500

\* ensure_repo_exists: `resp.status_code not in (200, 201)`
CreateFailed(status) == status \notin {200, 201}

\* enable_github_pages: `resp.status_code in (201, 422)`
PagesSucceeded(status) == status \in {201, 422}

\* enable_github_pages: the URL it returns for a given response status.
PagesUrl(u, r, status) ==
    IF PagesSucceeded(status)
    THEN IF r = u \o ".github.io"
         THEN "https://" \o u \o ".github.io/"
         ELSE "https://" \o u \o ".github.io/" \o r
    ELSE "https://" \o u \o ".github.io/" \o r

\* Mutant: a missing entry is skipped without a message.
StageItemSilent(item, src, st) ==
    IF src[item] \in {"dir", "file"}
    THEN [files |-> st.files \cup {item},
          log |-> Append(st.log, <<"copied_" \o src[item], item>>)]
    ELSE st

\* deploy, stage 3: one iteration of the loop over PORTFOLIO_FILES.
StageItem(item, src, st) ==
    IF src[item] = "dir"
    THEN [files |-> st.files \cup {item},
          log |-> Append(st.log, <<"copied_dir", item>>)]
    ELSE IF src[item] = "file"
    THEN [files |-> st.files \cup {item},
          log |-> Append(st.log, <<"copied_file", item>>)]
    ELSE [files |-> st.files,
          log |-> Append(st.log, <<"skipping_missing", item>>)]

\* deploy, stage 3: the loop over PORTFOLIO_FILES.
RECURSIVE StageAll(_, _, _)
StageAll(items, src, st) ==
    IF items = <<>> THEN st
    ELSE StageAll(Tail(items), src, StageItem(Head(items), src, st))

\* Mutant: a plain push.
PushForceOff == FALSE

\* origin.push(refspec="main:main", force=True): the force flag.
PushForce == TRUE

\* The remote accepts a push of `commit` onto `head`: always when forced,
\* otherwise only as a fast-forward (the local history is a single fresh
\* root commit, so only an empty or identical remote branch qualifies).
RemoteAccepts(force, head, commit) ==
    force \/ head = NoCommit \/ head = commit

\* Outcome of `git push origin main:main`.
PushOutcome(branch, netOk, force, head, commit) ==
    IF branch # "main" THEN "no_main_branch"
    ELSE IF ~netOk THEN "network_error"
    ELSE IF ~RemoteAccepts(force, head, commit) THEN "rejected"
    ELSE "ok"


\* Mutant: the existence check is ignored.
RepoFoundNever(status) == FALSE

\* ensure_repo_exists: `resp.status_code == 200`
RepoFound(status) == status = 200

\* Mutant: the old directory is kept and git init runs inside it.
ReusedWorkspace(ws) == [exists |-> TRUE, files |-> ws.files \cup {GitDir}]

\* shutil.rmtree + mkdir + git.Repo.init: the directory holds only .git.
FreshWorkspace(ws) == [exists |-> TRUE, files |-> {GitDir}]

\* Side effects of rebuilding the workspace, in order.
RebuildEvents(ws) ==
    IF ws.exists THEN <<"rmtree", "mkdir_init">> ELSE <<"mkdir_init">>

\* Mutant: a failed first push is swallowed.
AfterFirstPushIgnored(outcome) == "pages"

\* Where the run goes after the first push attempt.
AfterFirstPush(outcome) == IF outcome = "ok" THEN "pages" ELSE "retry"

\* Mutant: a failed second push is swallowed too.
AfterRetryPushIgnored(outcome) == "pages"

\* Where the run goes after the retried push attempt: an uncaught
\* GitCommandError ends the process.
AfterRetryPush(outcome) == IF outcome = "ok" THEN "pages" ELSE "exit"

\* Mutant: a failed pages request ends the run.
AfterPagesFatal(status) == IF PagesSucceeded(status) THEN "report" ELSE "exit"

\* Where the run goes after enable_github_pages: it returns a URL on both
\* of its paths and never exits.
AfterPages(status) == "report"

(* ------------------------------ Init ---------------------------------- *)

Init ==
    /\ username \in Usernames
    /\ repo \in Repos
    /\ token = ""
    /\ source = [i \in ManifestItems |-> "missing"]
    /\ open_browser = FALSE
    /\ pc = "idle"
    /\ exitStatus = "running"
    /\ runNo = 0
    /\ remoteExists \in BOOLEAN
    /\ apiMode \in ApiModes
    /\ remoteMain \in (IF remoteExists THEN {NoCommit, ExternalCommit} ELSE {NoCommit})
    /\ remote_url = ""
    /\ workspace \in {[exists |-> FALSE, files |-> {}],
                      [exists |-> TRUE, files |-> {GitDir, StaleFile}]}
    /\ localBranch = "none"
    /\ localCommit = NoCommit
    /\ stageLog = <<>>
    /\ events = <<>>
    /\ pushLog = <<>>
    /\ pagesStatus = 0
    /\ pagesWarned = FALSE
    /\ pages_url = ""
    /\ reportedUrl = ""
    /\ browserOpened = FALSE
    /\ lastEnsure = "none"
    /\ prevEnsure = "none"
    /\ lastPosted = FALSE
    /\ prevPosted = FALSE
    /\ extSince = FALSE
    /\ extBetween = FALSE
    /\ extCount = 0
    /\ workspaceAtStart = workspace
    /\ createStatus = 0
    /\ overwritten = NoCommit

NoRun == pc \in {"idle", "done", "exit"}

\* Bookkeeping when an ensure_repo_exists call ends.
EnsureEnds(outcome, posted) ==
    /\ prevEnsure' = lastEnsure
    /\ lastEnsure' = outcome
    /\ prevPosted' = lastPosted
    /\ lastPosted' = posted
    /\ extBetween' = extSince
    /\ extSince' = FALSE

(* ----------------------------- actions -------------------------------- *)

\* main(): parse the arguments, refuse to continue without a token.
Main ==
    /\ NoRun
    /\ runNo < MaxRuns
    /\ runNo' = runNo + 1
    /\ token' \in Tokens
    /\ source' \in [ManifestItems -> Kinds]
    /\ open_browser' \in BOOLEAN
    /\ IF TokenMissing(token')
       THEN pc' = "exit" /\ exitStatus' = "nonzero"
       ELSE pc' = "ensure_get" /\ exitStatus' = "running"
    /\ remote_url' = ""
    /\ localCommit' = NoCommit
    /\ localBranch' = "none"
    /\ stageLog' = <<>>
    /\ events' = <<>>
    /\ pushLog' = <<>>
    /\ pagesStatus' = 0
    /\ pagesWarned' = FALSE
    /\ pages_url' = ""
    /\ reportedUrl' = ""
    /\ browserOpened' = FALSE
    /\ workspaceAtStart' = workspace
    /\ createStatus' = 0
    /\ overwritten' = NoCommit
    /\ UNCHANGED <<username, repo, platformVars, workspace, ensureVars,
                   extSince, extCount>>

\* ensure_repo_exists, first request: GET /repos/{username}/{repo}.
EnsureGet ==
    /\ pc = "ensure_get"
    /\ LET status == GetStatus(remoteExists, apiMode) IN
        /\ events' = Append(events, "get")
        /\ IF RepoFound(status)
           THEN /\ remote_url' = CloneUrl(username, repo)
                /\ pc' = "rebuild"
                /\ EnsureEnds("returned", FALSE)
           ELSE /\ pc' = "ensure_post"
                /\ UNCHANGED <<remote_url, ensureVars, extSince>>
    /\ UNCHANGED <<inputVars, exitStatus, runNo, platformVars, localVars,
                   pushLog, pagesVars, extCount,
                   workspaceAtStart, createStatus, overwritten>>

\* ensure_repo_exists, second request: POST /user/repos.
EnsureCreate ==
    /\ pc = "ensure_post"
    /\ LET status == PostStatus(remoteExists, apiMode) IN
        /\ events' = Append(events, "post")
        /\ createStatus' = status
        /\ remoteExists' = (remoteExists \/ status = 201)
        /\ IF CreateFailed(status)
           THEN /\ pc' = "exit"
                /\ exitStatus' = "nonzero"
                /\ UNCHANGED remote_url
                /\ EnsureEnds("fatal", TRUE)
           ELSE /\ remote_url' = CloneUrl(username, repo)
                /\ pc' = "rebuild"
                /\ UNCHANGED exitStatus
                /\ EnsureEnds("returned", TRUE)
    /\ UNCHANGED <<inputVars, runNo, apiMode, remoteMain, localVars, pushLog,
                   pagesVars, extCount,
                   workspaceAtStart, overwritten>>

\* deploy, stage 2: delete the old workspace, recreate it, git init.
RebuildWorkspace ==
    /\ pc = "rebuild"
    /\ events' = events \o RebuildEvents(workspace)
    /\ workspace' = FreshWorkspace(workspace)
    /\ localBranch' \in {"master", "main"}
    /\ pc' = "stage"
    /\ UNCHANGED <<inputVars, exitStatus, runNo, platformVars, remote_url,
                   localCommit, stageLog, pushLog, pagesVars, ensureVars,
                   extSince, extCount,
                   workspaceAtStart, createStatus, overwritten>>

\* deploy, stage 3: copy the manifest into the workspace.
StageFiles ==
    /\ pc = "stage"
    /\ LET st == StageAll(PORTFOLIO_FILES, source,
                          [files |-> workspace.files, log |-> <<>>]) IN
        /\ workspace' = [workspace EXCEPT !.files = st.files]
        /\ stageLog' = st.log
    /\ events' = Append(events, "stage")
    /\ pc' = "commit"
    /\ UNCHANGED <<inputVars, exitStatus, runNo, platformVars, remote_url,
                   localBranch, localCommit, pushLog, pagesVars, ensureVars,
                   extSince, extCount,
                   workspaceAtStart, createStatus, overwritten>>

\* deploy, stage 4: git add -A, commit, attach the remote.
Commit ==
    /\ pc = "commit"
    /\ localCommit' = [by |-> "deploy", run |-> runNo,
                       tree |-> workspace.files \ {GitDir}]
    /\ events' = Append(events, "commit")
    /\ pc' = "push"
    /\ UNCHANGED <<inputVars, exitStatus, runNo, platformVars, remote_url,
                   workspace, localBranch, stageLog, pushLog, pagesVars,
                   ensureVars, extSince, extCount,
                   workspaceAtStart, createStatus, overwritten>>

\* deploy, stage 4: the first push.
PushFirst ==
    /\ pc = "push"
    /\ \E netOk \in BOOLEAN :
        LET outcome == PushOutcome(localBranch, netOk, PushForce,
                                   remoteMain, localCommit) IN
        /\ pushLog' = Append(pushLog, outcome)
        /\ remoteMain' = IF outcome = "ok" THEN localCommit ELSE remoteMain
        /\ overwritten' = IF outcome = "ok" THEN remoteMain ELSE overwritten
        /\ pc' = AfterFirstPush(outcome)
    /\ events' = Append(events, "push")
    /\ UNCHANGED <<inputVars, exitStatus, runNo, remoteExists, apiMode,
                   remote_url, localVars, pagesVars, ensureVars, extSince,
                   extCount,
                   workspaceAtStart, createStatus>>

\* deploy, stage 4: the except branch, rename the branch and push again.
RetryPush ==
    /\ pc = "retry"
    /\ localBranch' = "main"
    /\ \E netOk \in BOOLEAN :
        LET outcome == PushOutcome("main", netOk, PushForce,
                                   remoteMain, localCommit) IN
        /\ pushLog' = Append(pushLog, outcome)
        /\ remoteMain' = IF outcome = "ok" THEN localCommit ELSE remoteMain
        /\ overwritten' = IF outcome = "ok" THEN remoteMain ELSE overwritten
        /\ pc' = AfterRetryPush(outcome)
        /\ exitStatus' = IF AfterRetryPush(outcome) = "exit"
                         THEN "nonzero" ELSE exitStatus
    /\ events' = events \o <<"rename", "push">>
    /\ UNCHANGED <<inputVars, runNo, remoteExists, apiMode, remote_url,
                   workspace, localCommit, stageLog, pagesVars, ensureVars,
                   extSince, extCount,
                   workspaceAtStart, createStatus>>

\* deploy, stage 5: enable_github_pages.
EnablePages ==
    /\ pc = "pages"
    /\ \E status \in PagesStatuses :
        /\ pagesStatus' = status
        /\ pagesWarned' = ~PagesSucceeded(status)
        /\ pages_url' = PagesUrl(username, repo, status)
        /\ pc' = AfterPages(status)
    /\ events' = Append(events, "pages")
    /\ UNCHANGED <<inputVars, exitStatus, runNo, platformVars, remote_url,
                   localVars, pushLog, reportedUrl, browserOpened, ensureVars,
                   extSince, extCount,
                   workspaceAtStart, createStatus, overwritten>>

\* deploy: the success summary and the optional browser.
Report ==
    /\ pc = "report"
    /\ reportedUrl' = pages_url
    /\ browserOpened' = open_browser
    /\ events' = Append(events, "report")
    /\ pc' = "done"
    /\ exitStatus' = "zero"
    /\ UNCHANGED <<inputVars, runNo, platformVars, remote_url, localVars,
                   pushLog, pagesStatus, pagesWarned, pages_url, ensureVars,
                   extSince, extCount,
                   workspaceAtStart, createStatus, overwritten>>

(* ------------------------ the environment ----------------------------- *)

ExternalStep ==
    /\ extCount < MaxExternal
    /\ extCount' = extCount + 1
    /\ extSince' = TRUE

\* The platform starts answering differently (token revoked, outage, ...).
ExternalApiChange ==
    /\ ExternalStep
    /\ apiMode' \in ApiModes \ {apiMode}
    /\ UNCHANGED <<inputVars, pc, exitStatus, runNo, remoteExists, remoteMain,
                   remote_url, localVars, events, pushLog, pagesVars,
                   ensureVars,
                   workspaceAtStart, createStatus, overwritten>>

\* Somebody commits to main directly on the platform, between runs.
ExternalRemoteCommit ==
    /\ NoRun
    /\ remoteExists
    /\ remoteMain # ExternalCommit
    /\ ExternalStep
    /\ remoteMain' = ExternalCommit
    /\ UNCHANGED <<inputVars, pc, exitStatus, runNo, remoteExists, apiMode,
                   remote_url, localVars, events, pushLog, pagesVars,
                   ensureVars,
                   workspaceAtStart, createStatus, overwritten>>

\* Somebody deletes the repository on the platform, between runs.
ExternalRepoDelete ==
    /\ NoRun
    /\ remoteExists
    /\ ExternalStep
    /\ remoteExists' = FALSE
    /\ remoteMain' = NoCommit
    /\ UNCHANGED <<inputVars, pc, exitStatus, runNo, apiMode, remote_url,
                   localVars, events, pushLog, pagesVars, ensureVars,
                   workspaceAtStart, createStatus, overwritten>>

Next ==
    \/ Main
    \/ EnsureGet
    \/ EnsureCreate
    \/ RebuildWorkspace
    \/ StageFiles
    \/ Commit
    \/ PushFirst
    \/ RetryPush
    \/ EnablePages
    \/ Report
    \/ ExternalApiChange
    \/ ExternalRemoteCommit
    \/ ExternalRepoDelete

Spec == Init /\ [][Next]_vars

TypeOK ==
    /\ pc \in {"idle", "ensure_get", "ensure_post", "rebuild", "stage",
               "commit", "push", "retry", "pages", "report", "done", "exit"}
    /\ exitStatus \in {"running", "zero", "nonzero"}
    /\ runNo \in 0..MaxRuns
    /\ pagesStatus \in PagesStatuses \cup {0}

(* ------------------------- claim vocabulary --------------------------- *)

\* The URL convention of the specification.
ConventionUrl(u, r) ==
    IF r = u \o ".github.io"
    THEN "https://" \o u \o ".github.io/"
    ELSE "https://" \o u \o ".github.io/" \o r

\* URLs on the pages host of account u.
PublicUrls(u) ==
    {"https://" \o u \o ".github.io/"} \cup
    {"https://" \o u \o ".github.io/" \o r : r \in Repos}

Happened(e) == \E i \in 1..Len(events) : events[i] = e

Times(e) == Cardinality({i \in 1..Len(events) : events[i] = e})

Warnings(item) ==
    Cardinality({i \in 1..Len(stageLog) :
                    stageLog[i] = <<"skipping_missing", item>>})

Copies(item) ==
    Cardinality({i \in 1..Len(stageLog) :
                    /\ stageLog[i][2] = item
                    /\ stageLog[i][1] \in {"copied_dir", "copied_file"}})

IsPrefix(s, t) == Len(s) <= Len(t) /\ s = SubSeq(t, 1, Len(s))

\* The complete event sequences of a run that the specification allows.
AllowedRuns ==
    {<<"get">> \o post \o rm \o <<"mkdir_init", "stage", "commit", "push">>
        \o retry \o <<"pages", "report">> :
        post \in {<<>>, <<"post">>},
        rm \in {<<>>, <<"rmtree">>},
        retry \in {<<>>, <<"rename", "push">>}}

(* ------------------------------ claims -------------------------------- *)

\* C1: for every account, repository name and pages-API status, the URL
\* computed by the Pages Enabler follows the convention (bare host when the
\* repository is {account}.github.io, host plus /{repo} otherwise).
C1_UrlFollowsConvention ==
    pagesStatus # 0 => pages_url = ConventionUrl(username, repo)

\* C2: a run started without a token exits non-zero before any HTTP request
\* and before any other side effect (workspace, commit, push, pages).
C2_NoTokenNoEffect ==
    (runNo > 0 /\ token = "") =>
        /\ pc = "exit"
        /\ exitStatus = "nonzero"
        /\ events = <<>>
        /\ workspace = workspaceAtStart
        /\ localCommit = NoCommit
        /\ pushLog = <<>>
        /\ createStatus = 0
        /\ pagesStatus = 0

C2_Witness ==
    /\ runNo = 2
    /\ token = ""
    /\ pc = "exit"
    /\ exitStatus = "nonzero"
    /\ remoteMain.by = "deploy"

\* C3: a run whose push succeeded leaves remote main equal to exactly the
\* commit it created, whatever the branch held before, and no push attempt
\* is ever rejected because the remote has diverged.
C3_ForcePushReplaces ==
    /\ pc \in {"pages", "report"} =>
        /\ remoteMain = localCommit
        /\ localCommit = [by |-> "deploy", run |-> runNo,
                          tree |-> workspace.files \ {GitDir}]
    /\ (pc = "done" /\ remoteMain # localCommit) => extSince
    /\ pc = "done" => localCommit.by = "deploy" /\ localCommit.run = runNo
    /\ \A i \in 1..Len(pushLog) : pushLog[i] # "rejected"

C3_Witness ==
    /\ pc = "done"
    /\ runNo = 2
    /\ overwritten.by \in {"deploy", "external"}
    /\ remoteMain = localCommit

\* C4: after staging, every manifest entry is either in the workspace with
\* one copy message and no warning, or absent with exactly one warning; and
\* a run that staged never stops before its commit and push.
C4_TotalOrWarned ==
    Happened("stage") =>
        /\ \A item \in ManifestItems :
            \/ /\ item \in workspace.files
               /\ source[item] # "missing"
               /\ Copies(item) = 1
               /\ Warnings(item) = 0
            \/ /\ item \notin workspace.files
               /\ Copies(item) = 0
               /\ Warnings(item) = 1
        /\ Len(stageLog) = Len(PORTFOLIO_FILES)
        /\ pc = "exit" => Happened("commit") /\ Happened("push")
        /\ pc # "commit" => Happened("commit")

C4_Witness ==
    /\ Happened("push")
    /\ source["index.html"] = "missing"
    /\ Warnings("index.html") = 1
    /\ "index.html" \notin workspace.files

\* C5 (as stated): when ensure_repo_exists is called twice in a row with no
\* external change in between, the second call issues no creation request.
C5_SecondCallNeverCreates ==
    (prevEnsure # "none" /\ ~extBetween) => ~lastPosted

\* C5 (amended): when the first of two calls in a row returned a clone URL
\* and nothing changed externally in between, the second call issues no
\* creation request and returns the clone URL of the existing repository.
C5_SecondCallAfterReturn ==
    (prevEnsure = "returned" /\ ~extBetween) =>
        /\ ~lastPosted
        /\ lastEnsure = "returned"
        /\ pc = "rebuild" => remote_url = CloneUrl(username, repo)

C5_Witness ==
    /\ prevEnsure = "returned"
    /\ prevPosted
    /\ ~extBetween
    /\ lastEnsure = "returned"
    /\ pc = "rebuild"

\* C6: at most two push attempts per run; the branch is renamed and the
\* push retried exactly once after a failed first push and only then; a
\* failed second push ends the run non-zero without a pages request.
C6_PushRetryOnce ==
    /\ Len(pushLog) <= 2
    /\ Times("push") = Len(pushLog)
    /\ Times("rename") <= 1
    /\ Happened("rename") <=> Len(pushLog) = 2
    /\ Len(pushLog) = 2 => pushLog[1] # "ok" /\ localBranch = "main"
    /\ (Len(pushLog) = 1 /\ pushLog[1] # "ok") => pc = "retry"
    /\ (Len(pushLog) = 2 /\ pushLog[2] # "ok") =>
        /\ pc = "exit"
        /\ exitStatus = "nonzero"
        /\ pagesStatus = 0
        /\ ~Happened("pages")

C6_Witness ==
    /\ Len(pushLog) = 2
    /\ pushLog[1] = "no_main_branch"
    /\ pushLog[2] = "network_error"
    /\ pc = "exit"

\* C7: once the pages request has been answered, whatever the status, the
\* run goes on to report a URL on the account's pages host and exits zero;
\* 201 and 422 both count as success and give the convention's URL.
C7_PagesFailureRecoverable ==
    pagesStatus # 0 =>
        /\ pc \in {"report", "done"}
        /\ exitStatus # "nonzero"
        /\ pushLog[Len(pushLog)] = "ok"
        /\ pages_url \in PublicUrls(username)
        /\ pc = "done" => exitStatus = "zero" /\ reportedUrl = pages_url
        /\ pagesStatus \in {201, 422} =>
            /\ ~pagesWarned
            /\ pages_url = ConventionUrl(username, repo)
        /\ pagesStatus \notin {201, 422} => pagesWarned

C7_Witness ==
    /\ pc = "done"
    /\ pagesStatus = 503
    /\ pagesWarned
    /\ exitStatus = "zero"
    /\ reportedUrl \in PublicUrls(username)

\* C8: when the creation request is answered with anything but 200/201 the
\* run ends non-zero having issued only the two repository requests: the
\* workspace is untouched, nothing is committed, pushed or pages-enabled.
C8_CreateFailureFatal ==
    (createStatus # 0 /\ createStatus \notin {200, 201}) =>
        /\ pc = "exit"
        /\ exitStatus = "nonzero"
        /\ events = <<"get", "post">>
        /\ workspace = workspaceAtStart
        /\ localCommit = NoCommit
        /\ pushLog = <<>>
        /\ pagesStatus = 0

C8_Witness ==
    /\ createStatus = 403
    /\ pc = "exit"
    /\ workspaceAtStart.exists
    /\ workspace = workspaceAtStart

\* C9 (as stated): at the commit the workspace holds exactly the manifest's
\* entries, for every content of the source directory.
C9_ExactlyManifest ==
    localCommit # NoCommit => localCommit.tree = ManifestItems

\* C9 (amended): at the commit the workspace holds exactly the manifest
\* entries that exist in the source directory, and nothing else besides
\* .git, whatever the workspace directory held before the run.
C9_ExactlyPresentManifest ==
    localCommit # NoCommit =>
        /\ localCommit.tree =
              {item \in ManifestItems : source[item] # "missing"}
        /\ workspace.files = localCommit.tree \cup {GitDir}

C9_Witness ==
    /\ pc = "push"
    /\ StaleFile \in workspaceAtStart.files
    /\ localCommit.tree = {"index.html"}

\* C10: the events of a run are a prefix of get, [post], [rmtree],
\* mkdir_init, stage, commit, push, [rename, push], pages, report; a fatal
\* exit is the last thing a run does; pages follows a successful push.
C10_StrictlySequential ==
    /\ \E full \in AllowedRuns : IsPrefix(events, full)
    /\ Happened("pages") => pushLog # <<>> /\ pushLog[Len(pushLog)] = "ok"
    /\ Happened("push") => localCommit # NoCommit
    /\ Happened("post") => createStatus # 0
    /\ (Happened("mkdir_init") /\ Happened("post")) => createStatus \in {200, 201}
    /\ pc = "done" => events \in AllowedRuns
    /\ Times("get") <= 1 /\ Times("post") <= 1
    /\ Times("commit") <= 1 /\ Times("pages") <= 1

C10_Witness ==
    /\ pc = "done"
    /\ events = <<"get", "post", "rmtree", "mkdir_init", "stage", "commit",
                  "push", "rename", "push", "pages", "report">>

====
